---- MODULE Spec2Model ----
(***************************************************************************)
(* Footy Predictor front end: the Match View component (App.js) and the    *)
(* API client with its request interceptor (services/api.js).              *)
(*                                                                         *)
(* The view's React state (matches, loading, error, predictions,           *)
(* loadingPrediction) and the browser's local storage are the variables.   *)
(* Every await in a handler splits the handler in two actions: the part    *)
(* that runs up to the await (the request is sent) and the continuation    *)
(* that runs when the promise settles (then-branch or catch-branch).       *)
(* Requests in flight settle in any order.                                 *)
(*                                                                         *)
(* App.js imports getMatches from services/api, which the api.js at hand   *)
(* does not export; the call is modelled after the specification's         *)
(* "list matches: GET /matches" (GetMatchesConfig below).                  *)
(***************************************************************************)
EXTENDS Integers, Sequences, FiniteSets, TLC

VARIABLES
    matches,              \* App.js:6   useState([])
    loading,              \* App.js:7   useState(true)
    error,                \* App.js:8   useState(null)
    predictions,          \* App.js:9   useState({})
    loadingPrediction,    \* App.js:10  useState(null)
    token,                \* localStorage item 'token' (api.js:13)
    fetchPc,              \* position of fetchMatches: "init", "awaiting", "done"
    fetchCount,           \* number of getMatches() calls issued
    fetchResult,          \* how the getMatches() promise settled
    inflight,             \* getPrediction() promises not yet settled
    issuedCount,          \* number of prediction requests issued so far
    lastSent,             \* config of the last request that left the interceptor
    lastPredictionEvent,  \* last step of the prediction sub-flow
    lastResolved,         \* per match id: request and data of the last fulfilled response
    staleOverwrite        \* a response overwrote the data of a request issued after its own

vars == <<matches, loading, error, predictions, loadingPrediction, token,
          fetchPc, fetchCount, fetchResult, inflight, issuedCount, lastSent,
          lastPredictionEvent, lastResolved, staleOverwrite>>

viewVars == <<matches, loading, error, predictions, loadingPrediction>>

(***************************************************************************)
(* Bounds                                                                  *)
(***************************************************************************)
\* longest match list a response carries
MaxMatches == 2
\* prediction requests issued within one mount
MaxRequests == 3
\* prediction requests issued while every kind of response is rendered
MaxRenderRequests == 2
\* prediction requests issued while the page also uses the client
MaxPageRequests == 2

(***************************************************************************)
(* Values                                                                  *)
(***************************************************************************)
NULL == "null"

ErrorMessage == "Failed to load matches"

Team(i, n) == [id |-> i, name |-> n]

Match(i, st, h, a, sh, sa) ==
    [id |-> i, status |-> st, home_team |-> h, away_team |-> a,
     score |-> [home |-> sh, away |-> sa]]

RealMadrid == Team("t1", "Real Madrid")
Barcelona == Team("t2", "Barcelona")
Sevilla == Team("t3", "Sevilla")

\* a score is null or a number; 0 is a number
ScoreNull == [type |-> "null"]
Score(n) == [type |-> "number", value |-> n]

\* the matches a backend response is built from; identifiers are unique
\* (they are strings here: as object keys JavaScript turns them into strings)
MatchPool ==
    { Match("m7", "FINISHED", RealMadrid, Barcelona, ScoreNull, ScoreNull),
      Match("m8", "SCHEDULED", Barcelona, Sevilla, Score(0), ScoreNull),
      Match("m9", "FINISHED", Sevilla, RealMadrid, Score(2), Score(1)) }

MatchIds == {m.id : m \in MatchPool}

Range(s) == {s[i] : i \in 1..Len(s)}

\* lists of distinct matches of length at most MaxMatches
MatchLists ==
    UNION { {s \in [1..n -> MatchPool] : \A i, j \in 1..n : s[i] = s[j] => i = j}
            : n \in 0..MaxMatches }

\* response.data of GET /matches: the matches field may be absent
MatchListData ==
    {[hasMatches |-> FALSE]} \cup {[hasMatches |-> TRUE, matches |-> l] : l \in MatchLists}

Undefined == [type |-> "undefined"]

Prediction(o) == [type |-> "object", predicted_outcome |-> o, confidence |-> 62]

\* response.data.prediction of POST /predict: an object, with or without an
\* outcome the view knows, or nothing
PredictionData ==
    {Prediction(o) : o \in {"HOME_WIN", "AWAY_WIN", "DRAW", "POSTPONED"}}
    \cup {[type |-> "object", confidence |-> 50]}
    \cup {Undefined}

\* the responses the view's interleavings are explored with
ViewPredictionData == {Prediction("HOME_WIN"), Prediction("AWAY_WIN"), Undefined}

\* values of localStorage.getItem('token'): null when no item is stored
Tokens == {"", "tokA", "tokB"}

EmptyObject == [k \in {} |-> Undefined]

(***************************************************************************)
(* API client (services/api.js)                                            *)
(***************************************************************************)
\* JavaScript truthiness of a value read from local storage
Truthy(v) == v # NULL /\ v # ""

\* the template string `Bearer ${token}`
Bearer(t) == [scheme |-> "Bearer ", credentials |-> t]

\* axios.create({baseURL, headers}): every request starts from a fresh copy
DefaultHeaders == [h \in {"Content-Type"} |-> "application/json"]

Config(method, url, data) ==
    [method |-> method, url |-> url, headers |-> DefaultHeaders, data |-> data]

SetHeader(headers, name, value) ==
    [h \in DOMAIN headers \cup {name} |-> IF h = name THEN value ELSE headers[h]]

NoRequest == [sent |-> FALSE]

HasAuthorization(request) ==
    request.sent /\ "Authorization" \in DOMAIN request.config.headers

\* the interceptor writing the header into the instance's shared default
\* headers, so that it stays on later requests
InterceptorSticky(config, tok) ==
    IF Truthy(tok)
    THEN [config EXCEPT !.headers = SetHeader(@, "Authorization", Bearer(tok))]
    ELSE IF HasAuthorization(lastSent)
    THEN [config EXCEPT !.headers =
              SetHeader(@, "Authorization", lastSent.config.headers["Authorization"])]
    ELSE config

\* the request interceptor, with tok the result of localStorage.getItem('token')
Interceptor(config, tok) ==
    IF Truthy(tok)
    THEN [config EXCEPT !.headers = SetHeader(@, "Authorization", Bearer(tok))]
    ELSE config

NoData == [k \in {} |-> 0]

\* the list-matches call the view imports: GET /matches
GetMatchesConfig == Config("get", <<"/matches">>, NoData)

register(userData) == Config("post", <<"/auth/register">>, userData)
login(userData) == Config("post", <<"/auth/login">>, userData)
getMe == Config("get", <<"/auth/me">>, NoData)
getTeams == Config("get", <<"/teams">>, NoData)
getTeamStats(teamId) == Config("get", <<"/teams/", teamId, "/stats">>, NoData)
getStandings == Config("get", <<"/standings">>, NoData)
getPrediction(homeTeamId, awayTeamId) ==
    Config("post", <<"/predict">>,
           [home_team_id |-> homeTeamId, away_team_id |-> awayTeamId])
getMyPredictions == Config("get", <<"/predictions">>, NoData)
getLeaderboard == Config("get", <<"/leaderboard">>, NoData)

TeamIds == {"t1", "t2", "t3"}

Credentials == {[username |-> "ana", password |-> "pw"]}

\* the calls a page can make through the exported functions
ClientCalls ==
    {register(u) : u \in Credentials} \cup {login(u) : u \in Credentials}
    \cup {getMe, getTeams, getStandings, getMyPredictions, getLeaderboard}
    \cup {getTeamStats(t) : t \in TeamIds}
    \cup {getPrediction(h, a) : h, a \in TeamIds}

\* what leaves the client: the config after the interceptor ran on it, with the
\* token that was stored at that moment and whether an earlier request was
\* sent with an Authorization header
Send(config) ==
    [sent |-> TRUE,
     config |-> Interceptor(config, token),
     stored |-> token,
     earlierAuthorized |-> lastSent.sent /\ (lastSent.earlierAuthorized
                                             \/ HasAuthorization(lastSent))]

(***************************************************************************)
(* Match View (App.js)                                                     *)
(***************************************************************************)
\* response.data.matches || []
MatchesOrEmpty(data) == IF data.hasMatches THEN data.matches ELSE << >>

\* the object literal without the spread of prev: {[key]: value}
SpreadWithoutPrev(prev, key, value) == [k \in {key} |-> value]

\* {...prev, [key]: value}
Spread(prev, key, value) ==
    [k \in DOMAIN prev \cup {key} |-> IF k = key THEN value ELSE prev[k]]

\* the cards of the render: none in the loading and in the error return
Cards ==
    IF loading THEN << >>
    ELSE IF error # NULL THEN << >>
    ELSE matches

CardCount == Len(Cards)

Disabled(m) == loadingPrediction = m.id

ButtonLabel(m) == IF loadingPrediction = m.id THEN "Loading..." ELSE "Get Prediction"

\* the score test written as a truthiness test: a home score of 0 hides the pair
ScoreShownTruthy(m) == m.score.home # ScoreNull /\ m.score.home # Score(0)

\* match.score.home !== null && (...)
ScoreShown(m) == m.score.home # ScoreNull

\* predictions[match.id] && (...)
PanelShown(m) == m.id \in DOMAIN predictions /\ predictions[m.id] # Undefined

\* the label with DRAW tested and the away team as the fallback
OutcomeLabelDrawChecked(m) ==
    LET p == predictions[m.id] IN
    IF "predicted_outcome" \in DOMAIN p /\ p.predicted_outcome = "HOME_WIN"
    THEN m.home_team.name
    ELSE IF "predicted_outcome" \in DOMAIN p /\ p.predicted_outcome = "DRAW"
    THEN "Draw"
    ELSE m.away_team.name

OutcomeLabel(m) ==
    LET p == predictions[m.id] IN
    IF "predicted_outcome" \in DOMAIN p /\ p.predicted_outcome = "HOME_WIN"
    THEN m.home_team.name
    ELSE IF "predicted_outcome" \in DOMAIN p /\ p.predicted_outcome = "AWAY_WIN"
    THEN m.away_team.name
    ELSE "Draw"

ViewState == IF loading THEN "loading" ELSE IF error # NULL THEN "error" ELSE "ready"

NoEvent == [kind |-> "none"]

\* the component as constructed, in a browser that stores no token yet
Init ==
    /\ matches = << >>
    /\ loading = TRUE
    /\ error = NULL
    /\ predictions = EmptyObject
    /\ loadingPrediction = NULL
    /\ token = NULL
    /\ fetchPc = "init"
    /\ fetchCount = 0
    /\ fetchResult = [status |-> "pending"]
    /\ inflight = {}
    /\ issuedCount = 0
    /\ lastSent = NoRequest
    /\ lastPredictionEvent = NoEvent
    /\ lastResolved = EmptyObject
    /\ staleOverwrite = FALSE

\* useEffect(() => { fetchMatches(); }, []) up to the await
Mount ==
    /\ fetchPc = "init"
    /\ fetchPc' = "awaiting"
    /\ fetchCount' = fetchCount + 1
    /\ lastSent' = Send(GetMatchesConfig)
    /\ UNCHANGED <<viewVars, token, fetchResult, inflight, issuedCount,
                   lastPredictionEvent, lastResolved, staleOverwrite>>

\* the try branch treating a response without a matches field as a failure
FetchMatchesFulfilledStrict(data) ==
    /\ fetchPc = "awaiting"
    /\ matches' = MatchesOrEmpty(data)
    /\ error' = IF data.hasMatches THEN error ELSE ErrorMessage
    /\ loading' = FALSE
    /\ fetchPc' = "done"
    /\ fetchResult' = [status |-> "fulfilled", data |-> data]
    /\ UNCHANGED <<predictions, loadingPrediction, token, fetchCount,
                   inflight, issuedCount, lastSent, lastPredictionEvent,
                   lastResolved, staleOverwrite>>

\* fetchMatches after the await: the try branch
FetchMatchesFulfilled(data) ==
    /\ fetchPc = "awaiting"
    /\ matches' = MatchesOrEmpty(data)
    /\ loading' = FALSE
    /\ fetchPc' = "done"
    /\ fetchResult' = [status |-> "fulfilled", data |-> data]
    /\ UNCHANGED <<error, predictions, loadingPrediction, token, fetchCount,
                   inflight, issuedCount, lastSent, lastPredictionEvent, lastResolved, staleOverwrite>>

\* the catch branch without setLoading(false)
FetchMatchesRejectedKeepsLoading ==
    /\ fetchPc = "awaiting"
    /\ error' = ErrorMessage
    /\ fetchPc' = "done"
    /\ fetchResult' = [status |-> "rejected"]
    /\ UNCHANGED <<matches, loading, predictions, loadingPrediction, token,
                   fetchCount, inflight, issuedCount, lastSent,
                   lastPredictionEvent, lastResolved, staleOverwrite>>

\* fetchMatches after the await: the catch branch
FetchMatchesRejected ==
    /\ fetchPc = "awaiting"
    /\ error' = ErrorMessage
    /\ loading' = FALSE
    /\ fetchPc' = "done"
    /\ fetchResult' = [status |-> "rejected"]
    /\ UNCHANGED <<matches, predictions, loadingPrediction, token, fetchCount,
                   inflight, issuedCount, lastSent, lastPredictionEvent, lastResolved, staleOverwrite>>

\* the click handler without setLoadingPrediction(match.id)
HandleGetPredictionNoMarker(m) ==
    /\ m \in Range(Cards)
    /\ ~Disabled(m)
    /\ issuedCount' = issuedCount + 1
    /\ inflight' = inflight \cup
            {[rid |-> issuedCount + 1, matchId |-> m.id,
              data |-> getPrediction(m.home_team.id, m.away_team.id).data]}
    /\ lastSent' = Send(getPrediction(m.home_team.id, m.away_team.id))
    /\ lastPredictionEvent' = [kind |-> "issued", matchId |-> m.id]
    /\ UNCHANGED <<matches, loading, error, predictions, loadingPrediction, token,
                   fetchPc, fetchCount, fetchResult, lastResolved, staleOverwrite>>

\* the click handler setting the marker only when no match is marked:
\* setLoadingPrediction(prev => prev ?? match.id)
HandleGetPredictionKeepsMarked(m) ==
    /\ m \in Range(Cards)
    /\ ~Disabled(m)
    /\ loadingPrediction' = IF loadingPrediction = NULL THEN m.id ELSE loadingPrediction
    /\ issuedCount' = issuedCount + 1
    /\ inflight' = inflight \cup
            {[rid |-> issuedCount + 1, matchId |-> m.id,
              data |-> getPrediction(m.home_team.id, m.away_team.id).data]}
    /\ lastSent' = Send(getPrediction(m.home_team.id, m.away_team.id))
    /\ lastPredictionEvent' = [kind |-> "issued", matchId |-> m.id]
    /\ UNCHANGED <<matches, loading, error, predictions, token, fetchPc,
                   fetchCount, fetchResult, lastResolved, staleOverwrite>>

\* a click on the button of card m: handleGetPrediction(m) up to the await
HandleGetPrediction(m) ==
    /\ m \in Range(Cards)
    /\ ~Disabled(m)
    /\ loadingPrediction' = m.id
    /\ issuedCount' = issuedCount + 1
    /\ inflight' = inflight \cup
            {[rid |-> issuedCount + 1, matchId |-> m.id,
              data |-> getPrediction(m.home_team.id, m.away_team.id).data]}
    /\ lastSent' = Send(getPrediction(m.home_team.id, m.away_team.id))
    /\ lastPredictionEvent' = [kind |-> "issued", matchId |-> m.id]
    /\ UNCHANGED <<matches, loading, error, predictions, token, fetchPc,
                   fetchCount, fetchResult, lastResolved, staleOverwrite>>

\* the try branch clearing the marker only when it names the request's match
PredictionFulfilledOwnMarker(r, p) ==
    /\ r \in inflight
    /\ predictions' = Spread(predictions, r.matchId, p)
    /\ loadingPrediction' = IF loadingPrediction = r.matchId THEN NULL ELSE loadingPrediction
    /\ inflight' = inflight \ {r}
    /\ lastPredictionEvent' = [kind |-> "fulfilled", matchId |-> r.matchId]
    /\ lastResolved' = Spread(lastResolved, r.matchId, [rid |-> r.rid, prediction |-> p])
    /\ staleOverwrite' = (staleOverwrite \/ (r.matchId \in DOMAIN lastResolved
                                              /\ lastResolved[r.matchId].rid > r.rid))
    /\ UNCHANGED <<matches, loading, error, token, fetchPc, fetchCount,
                   fetchResult, issuedCount, lastSent>>

\* the try branch with a generation check: a response whose request was issued
\* before the one that stored the current data is dropped
PredictionFulfilledDropsStale(r, p) ==
    /\ r \in inflight
    /\ predictions' = IF r.matchId \in DOMAIN lastResolved
                         /\ lastResolved[r.matchId].rid > r.rid
                      THEN predictions
                      ELSE Spread(predictions, r.matchId, p)
    /\ loadingPrediction' = NULL
    /\ inflight' = inflight \ {r}
    /\ lastPredictionEvent' = [kind |-> "fulfilled", matchId |-> r.matchId]
    /\ lastResolved' = Spread(lastResolved, r.matchId, [rid |-> r.rid, prediction |-> p])
    /\ staleOverwrite' = (staleOverwrite \/ (r.matchId \in DOMAIN lastResolved
                                              /\ lastResolved[r.matchId].rid > r.rid))
    /\ UNCHANGED <<matches, loading, error, token, fetchPc, fetchCount,
                   fetchResult, issuedCount, lastSent>>

\* the try branch returning before line 38: the marker is cleared on failure only
PredictionFulfilledKeepsMarker(r, p) ==
    /\ r \in inflight
    /\ predictions' = Spread(predictions, r.matchId, p)
    /\ inflight' = inflight \ {r}
    /\ lastPredictionEvent' = [kind |-> "fulfilled", matchId |-> r.matchId]
    /\ lastResolved' = Spread(lastResolved, r.matchId, [rid |-> r.rid, prediction |-> p])
    /\ staleOverwrite' = (staleOverwrite \/ (r.matchId \in DOMAIN lastResolved
                                              /\ lastResolved[r.matchId].rid > r.rid))
    /\ UNCHANGED <<matches, loading, error, loadingPrediction, token, fetchPc,
                   fetchCount, fetchResult, issuedCount, lastSent>>

\* the try branch storing under the home team's identifier:
\* {...prev, [match.home_team.id]: response.data.prediction}
PredictionFulfilledKeyedByTeam(r, p) ==
    /\ r \in inflight
    /\ predictions' = Spread(predictions, r.data.home_team_id, p)
    /\ loadingPrediction' = NULL
    /\ inflight' = inflight \ {r}
    /\ lastPredictionEvent' = [kind |-> "fulfilled", matchId |-> r.matchId]
    /\ lastResolved' = Spread(lastResolved, r.matchId, [rid |-> r.rid, prediction |-> p])
    /\ staleOverwrite' = (staleOverwrite \/ (r.matchId \in DOMAIN lastResolved
                                              /\ lastResolved[r.matchId].rid > r.rid))
    /\ UNCHANGED <<matches, loading, error, token, fetchPc, fetchCount,
                   fetchResult, issuedCount, lastSent>>

\* handleGetPrediction after the await: the try branch, then line 38
PredictionFulfilled(r, p) ==
    /\ r \in inflight
    /\ predictions' = Spread(predictions, r.matchId, p)
    /\ loadingPrediction' = NULL
    /\ inflight' = inflight \ {r}
    /\ lastPredictionEvent' = [kind |-> "fulfilled", matchId |-> r.matchId]
    /\ lastResolved' = Spread(lastResolved, r.matchId, [rid |-> r.rid, prediction |-> p])
    /\ staleOverwrite' = (staleOverwrite \/ (r.matchId \in DOMAIN lastResolved
                                              /\ lastResolved[r.matchId].rid > r.rid))
    /\ UNCHANGED <<matches, loading, error, token, fetchPc, fetchCount,
                   fetchResult, issuedCount, lastSent>>

\* the catch branch with setLoadingPrediction(null) left inside the try
PredictionRejectedKeepsMarker(r) ==
    /\ r \in inflight
    /\ inflight' = inflight \ {r}
    /\ lastPredictionEvent' = [kind |-> "rejected", matchId |-> r.matchId]
    /\ UNCHANGED <<matches, loading, error, predictions, loadingPrediction, token,
                   fetchPc, fetchCount, fetchResult, issuedCount, lastSent,
                   lastResolved, staleOverwrite>>

\* the catch branch resetting the mapping to the failed match's entry alone
PredictionRejectedDropsOthers(r) ==
    /\ r \in inflight
    /\ predictions' = [k \in DOMAIN predictions \cap {r.matchId} |-> predictions[k]]
    /\ loadingPrediction' = NULL
    /\ inflight' = inflight \ {r}
    /\ lastPredictionEvent' = [kind |-> "rejected", matchId |-> r.matchId]
    /\ UNCHANGED <<matches, loading, error, token, fetchPc, fetchCount,
                   fetchResult, issuedCount, lastSent, lastResolved, staleOverwrite>>

\* the catch branch reporting the failure through the view's error state
PredictionRejectedSetsError(r) ==
    /\ r \in inflight
    /\ error' = "Failed to get prediction"
    /\ loadingPrediction' = NULL
    /\ inflight' = inflight \ {r}
    /\ lastPredictionEvent' = [kind |-> "rejected", matchId |-> r.matchId]
    /\ UNCHANGED <<matches, loading, predictions, token, fetchPc, fetchCount,
                   fetchResult, issuedCount, lastSent, lastResolved, staleOverwrite>>

\* the catch branch clearing the failed match's entry:
\* setPredictions(prev => ({...prev, [match.id]: undefined}))
PredictionRejectedClearsEntry(r) ==
    /\ r \in inflight
    /\ predictions' = Spread(predictions, r.matchId, Undefined)
    /\ loadingPrediction' = NULL
    /\ inflight' = inflight \ {r}
    /\ lastPredictionEvent' = [kind |-> "rejected", matchId |-> r.matchId]
    /\ UNCHANGED <<matches, loading, error, token, fetchPc, fetchCount,
                   fetchResult, issuedCount, lastSent, lastResolved, staleOverwrite>>

\* handleGetPrediction after the await: the catch branch, then line 38
PredictionRejected(r) ==
    /\ r \in inflight
    /\ loadingPrediction' = NULL
    /\ inflight' = inflight \ {r}
    /\ lastPredictionEvent' = [kind |-> "rejected", matchId |-> r.matchId]
    /\ UNCHANGED <<matches, loading, error, predictions, token, fetchPc,
                   fetchCount, fetchResult, issuedCount, lastSent, lastResolved,
                   staleOverwrite>>

\* localStorage.setItem('token', t) by the page
SetItem(t) ==
    /\ token # t
    /\ token' = t
    /\ UNCHANGED <<viewVars, fetchPc, fetchCount, fetchResult, inflight, issuedCount,
                   lastSent, lastPredictionEvent, lastResolved, staleOverwrite>>

\* localStorage.removeItem('token') by the page
RemoveItem ==
    /\ token # NULL
    /\ token' = NULL
    /\ UNCHANGED <<viewVars, fetchPc, fetchCount, fetchResult, inflight, issuedCount,
                   lastSent, lastPredictionEvent, lastResolved, staleOverwrite>>

\* a call of an exported function: api.get(url) / api.post(url, data)
ApiRequest(config) ==
    /\ lastSent' = Send(config)
    /\ UNCHANGED <<viewVars, token, fetchPc, fetchCount, fetchResult, inflight,
                   issuedCount, lastPredictionEvent, lastResolved, staleOverwrite>>

\* the Match View within one mount
Next ==
    \/ Mount
    \/ \E data \in MatchListData : FetchMatchesFulfilled(data)
    \/ FetchMatchesRejected
    \/ \E m \in MatchPool : issuedCount < MaxRequests /\ HandleGetPrediction(m)
    \/ \E r \in inflight, p \in ViewPredictionData : PredictionFulfilled(r, p)
    \/ \E r \in inflight : PredictionRejected(r)

Spec == Init /\ [][Next]_vars

\* some prediction request in flight settles
Settle ==
    \E r \in inflight :
        \/ PredictionRejected(r)
        \/ \E p \in ViewPredictionData : PredictionFulfilled(r, p)

\* the Match View when every prediction request issued settles in the end
LiveSpec == Init /\ [][Next]_vars /\ WF_vars(Settle)

\* the Match View under every kind of prediction response
RenderNext ==
    \/ Mount
    \/ \E data \in MatchListData : FetchMatchesFulfilled(data)
    \/ FetchMatchesRejected
    \/ \E m \in MatchPool : issuedCount < MaxRenderRequests /\ HandleGetPrediction(m)
    \/ \E r \in inflight, p \in PredictionData : PredictionFulfilled(r, p)
    \/ \E r \in inflight : PredictionRejected(r)

RenderSpec == Init /\ [][RenderNext]_vars

\* the API client under a page that writes and removes the token
ClientNext ==
    \/ \E t \in Tokens : SetItem(t)
    \/ RemoveItem
    \/ \E config \in ClientCalls : ApiRequest(config)

ClientSpec == Init /\ [][ClientNext]_vars

\* the Match View on a page that also writes the token and calls the client
PageNext ==
    \/ Mount
    \/ \E data \in MatchListData : FetchMatchesFulfilled(data)
    \/ FetchMatchesRejected
    \/ \E m \in MatchPool : issuedCount < MaxPageRequests /\ HandleGetPrediction(m)
    \/ \E r \in inflight, p \in {Prediction("HOME_WIN")} : PredictionFulfilled(r, p)
    \/ \E r \in inflight : PredictionRejected(r)
    \/ SetItem("tokA")
    \/ RemoveItem
    \/ ApiRequest(getStandings)

PageSpec == Init /\ [][PageNext]_vars

TypeOK ==
    /\ loading \in BOOLEAN
    /\ error \in {NULL, ErrorMessage}
    /\ loadingPrediction \in {NULL} \cup MatchIds
    /\ fetchPc \in {"init", "awaiting", "done"}
    /\ DOMAIN predictions \subseteq MatchIds
    /\ issuedCount <= MaxRequests + MaxRenderRequests + MaxPageRequests

(***************************************************************************)
(* Claims                                                                  *)
(***************************************************************************)
CardsWithId(id) == {m \in Range(Cards) : m.id = id}

\* C1: when the match-list fetch issued on mount is fulfilled, the view is
\* ready (not loading, error null), its match list is the returned list, or the
\* empty list when the response has no matches field, and one card is rendered
\* per element of that list.
C1_FetchSuccessShowsReturnedList ==
    fetchResult.status = "fulfilled" =>
        /\ fetchCount = 1
        /\ ~loading
        /\ error = NULL
        /\ ViewState = "ready"
        /\ fetchResult.data.hasMatches =>
              /\ matches = fetchResult.data.matches
              /\ CardCount = Len(fetchResult.data.matches)
        /\ ~fetchResult.data.hasMatches =>
              /\ matches = << >>
              /\ CardCount = 0

C1_Witness ==
    /\ fetchResult.status = "fulfilled"
    /\ fetchResult.data.hasMatches
    /\ Len(fetchResult.data.matches) = 2
    /\ CardCount = 2

\* C2: when the match-list fetch is rejected, the view is in the error state
\* with the message 'Failed to load matches', the match list is empty and no
\* card, hence no prediction button, is rendered.
C2_FetchFailureShowsError ==
    fetchResult.status = "rejected" =>
        /\ ~loading
        /\ error = "Failed to load matches"
        /\ ViewState = "error"
        /\ matches = << >>
        /\ CardCount = 0
        /\ \A m \in MatchPool : m \notin Range(Cards)

C2_Witness ==
    /\ fetchResult.status = "rejected"
    /\ ViewState = "error"
    /\ fetchCount = 1

\* C3 as stated: while a prediction request for match X is in flight, X's
\* button is disabled and no other button is.
C3_Original ==
    \A r \in inflight : \A m \in Range(Cards) : Disabled(m) <=> m.id = r.matchId

\* C3: a button is disabled exactly when the last step of the prediction
\* sub-flow was the issue of a request for its match: from the issue of a
\* request for X, X's button and no other is disabled until the next
\* prediction request is issued or any prediction request, X's or another,
\* settles; the request issued last is then still in flight.
C3_DisabledUntilNextPredictionEvent ==
    \A m \in Range(Cards) :
        /\ Disabled(m) <=> (/\ lastPredictionEvent.kind = "issued"
                            /\ lastPredictionEvent.matchId = m.id)
        /\ Disabled(m) => [rid |-> issuedCount, matchId |-> m.id,
                           data |-> getPrediction(m.home_team.id, m.away_team.id).data]
                          \in inflight

C3_Witness ==
    \E m1, m2 \in Range(Cards) :
        /\ m1.id # m2.id
        /\ Disabled(m1)
        /\ ~Disabled(m2)
        /\ \E r \in inflight : r.matchId = m2.id

\* C4 as stated: right after a prediction request for X was rejected, the
\* predictions mapping has no entry for X and X's button is enabled with the
\* idle label.
C4_Original ==
    lastPredictionEvent.kind = "rejected" =>
        /\ \/ lastPredictionEvent.matchId \notin DOMAIN predictions
           \/ predictions[lastPredictionEvent.matchId] = Undefined
        /\ \A m \in CardsWithId(lastPredictionEvent.matchId) : ~PanelShown(m)
        /\ \A m \in CardsWithId(lastPredictionEvent.matchId) :
              ~Disabled(m) /\ ButtonLabel(m) = "Get Prediction"

\* C4: right after a prediction request for X was rejected, the predictions
\* mapping has an entry for X only if an earlier request for X was fulfilled,
\* and then the entry is the data of the last such response; X's button is
\* enabled with the idle label.
C4_FailureAddsNoEntry ==
    lastPredictionEvent.kind = "rejected" =>
        LET x == lastPredictionEvent.matchId IN
        /\ x \in DOMAIN predictions <=> x \in DOMAIN lastResolved
        /\ x \in DOMAIN predictions => predictions[x] = lastResolved[x].prediction
        /\ \A m \in CardsWithId(x) : ~Disabled(m) /\ ButtonLabel(m) = "Get Prediction"

C4_Witness ==
    /\ lastPredictionEvent.kind = "rejected"
    /\ lastPredictionEvent.matchId \in DOMAIN predictions
    /\ \E m \in CardsWithId(lastPredictionEvent.matchId) : PanelShown(m) /\ ~Disabled(m)

\* C5: for every match, the predictions mapping holds the data of the
\* fulfilled response that settled last, whatever the order in which the
\* requests were issued; in particular once all requests have settled.
C5_LastResolvedWins ==
    /\ DOMAIN predictions = DOMAIN lastResolved
    /\ \A x \in DOMAIN lastResolved : predictions[x] = lastResolved[x].prediction

C5_Witness ==
    /\ staleOverwrite
    /\ inflight = {}
    /\ \E x \in DOMAIN lastResolved :
          /\ lastResolved[x].rid < issuedCount
          /\ predictions[x] = lastResolved[x].prediction

SameEntry(id) ==
    /\ id \in DOMAIN predictions' <=> id \in DOMAIN predictions
    /\ id \in DOMAIN predictions => predictions'[id] = predictions[id]

\* C6 as stated: the rejection of X's request leaves every other match's
\* stored prediction and button state as they were.
C6_Original ==
    [][\A r \in inflight : PredictionRejected(r) =>
          \A m \in Range(Cards) : m.id # r.matchId =>
              /\ SameEntry(m.id)
              /\ Disabled(m)' <=> Disabled(m)]_vars

\* C6: the rejection of X's request leaves every other match's stored
\* prediction, or the absence of one, as it was; every other match's button is
\* enabled afterwards, also the one that was disabled because its own request
\* is in flight.
C6_FailureLeavesOtherPredictions ==
    [][\A r \in inflight : PredictionRejected(r) =>
          \A m \in Range(Cards) : m.id # r.matchId =>
              /\ SameEntry(m.id)
              /\ ~Disabled(m)'
              /\ ButtonLabel(m)' = "Get Prediction"]_vars

C6_Witness ==
    /\ lastPredictionEvent.kind = "rejected"
    /\ \E m \in Range(Cards) :
          /\ m.id # lastPredictionEvent.matchId
          /\ PanelShown(m)
          /\ \E r \in inflight : r.matchId = m.id

\* C7 as stated: while X's request stays in flight, X's button, once
\* disabled, stays disabled whatever else happens.
C7_Original ==
    [][\A r \in inflight :
          (r \in inflight' /\ loadingPrediction = r.matchId) =>
              loadingPrediction' = r.matchId]_vars

\* C7: the issue of a request for X leaves X's button disabled with the label
\* 'Loading...', and while the request stays in flight the button stays so
\* across every step that neither issues nor settles a prediction request:
\* nothing times out.
C7_PendingUntilNextPredictionEvent ==
    [][/\ \A m \in MatchPool : HandleGetPrediction(m) =>
              /\ Disabled(m)'
              /\ ButtonLabel(m)' = "Loading..."
              /\ \E r \in inflight' \ inflight : r.matchId = m.id
       /\ \A r \in inflight :
              (inflight' = inflight /\ loadingPrediction = r.matchId) =>
                  loadingPrediction' = r.matchId]_vars

C7_Witness ==
    /\ \E r \in inflight : loadingPrediction = r.matchId
    /\ lastSent.sent
    /\ lastSent.config.url = <<"/standings">>

\* C8: the view starts in loading and its coarse state changes only from
\* loading to ready or to error, when the one match-list fetch settles; the
\* fetch is issued once, and no prediction step moves the view.
C8_ViewStateSettlesOnce ==
    /\ ViewState = "loading"
    /\ fetchCount = 0
    /\ [][/\ ViewState' # ViewState =>
                /\ ViewState = "loading"
                /\ ViewState' \in {"ready", "error"}
                /\ fetchPc = "awaiting"
                /\ fetchPc' = "done"
          /\ fetchCount' >= fetchCount
          /\ fetchCount' <= 1
          /\ ViewState' # "loading" => fetchCount' = 1]_vars

C8_Witness ==
    /\ ViewState = "ready"
    /\ fetchCount = 1
    /\ lastPredictionEvent.kind = "rejected"
    /\ DOMAIN predictions # {}

\* C9: every request that leaves the client carries the header
\* Authorization: Bearer <t> exactly when local storage holds a non-empty
\* token t when the request is sent, t being the value stored then; a request
\* sent with no token stored carries no Authorization header, also after a
\* request that carried one.
C9_BearerIffTokenStored ==
    lastSent.sent =>
        LET headers == lastSent.config.headers
            t == lastSent.stored
        IN  /\ "Authorization" \in DOMAIN headers <=> (t # NULL /\ t # "")
            /\ "Authorization" \in DOMAIN headers =>
                   headers["Authorization"] = [scheme |-> "Bearer ", credentials |-> t]
            /\ headers["Content-Type"] = "application/json"

C9_Witness ==
    /\ lastSent.sent
    /\ lastSent.earlierAuthorized
    /\ lastSent.stored = NULL
    /\ ~HasAuthorization(lastSent)

HasOutcome(p, o) == "predicted_outcome" \in DOMAIN p /\ p.predicted_outcome = o

\* C10: for every card with a prediction panel the outcome label is the home
\* team's name when predicted_outcome is HOME_WIN, the away team's name when
\* it is AWAY_WIN, and 'Draw' for every other or missing value.
C10_OutcomeLabel ==
    \A m \in Range(Cards) : PanelShown(m) =>
        LET p == predictions[m.id] IN
        /\ HasOutcome(p, "HOME_WIN") => OutcomeLabel(m) = m.home_team.name
        /\ HasOutcome(p, "AWAY_WIN") => OutcomeLabel(m) = m.away_team.name
        /\ (~HasOutcome(p, "HOME_WIN") /\ ~HasOutcome(p, "AWAY_WIN")) =>
               OutcomeLabel(m) = "Draw"

C10_Witness ==
    \E m1, m2 \in Range(Cards) :
        /\ PanelShown(m1)
        /\ "predicted_outcome" \notin DOMAIN predictions[m1.id]
        /\ OutcomeLabel(m1) = "Draw"
        /\ PanelShown(m2)
        /\ HasOutcome(predictions[m2.id], "AWAY_WIN")
        /\ OutcomeLabel(m2) = m2.away_team.name

\* C11: for every card the score pair is rendered exactly when the match's
\* home score is a number (0 included) and not when it is null, whatever the
\* away score, the status and the stored prediction of the match are.
C11_ScoreShownIffHomeScore ==
    \A m \in Range(Cards) :
        /\ m.score.home.type = "number" => ScoreShown(m)
        /\ m.score.home.type = "null" => ~ScoreShown(m)

C11_Witness ==
    \E m1, m2 \in Range(Cards) :
        /\ m1.score.home = Score(0)
        /\ m1.score.away = ScoreNull
        /\ m1.status = "SCHEDULED"
        /\ ~PanelShown(m1)
        /\ ScoreShown(m1)
        /\ m2.score.home = ScoreNull
        /\ m2.status = "FINISHED"
        /\ PanelShown(m2)
        /\ ~ScoreShown(m2)

\* C12: when a prediction request for match X is fulfilled, the request was
\* sent with the home and away team identifiers of X, and afterwards the
\* predictions mapping maps X's identifier to the returned prediction and is
\* unchanged for every other identifier; the match list, loading and error
\* are unchanged.
C12_SuccessStoresOnlyOwnEntry ==
    [][\A r \in inflight : \A p \in ViewPredictionData :
          PredictionFulfilled(r, p) =>
              /\ \E m \in Range(matches) :
                    /\ m.id = r.matchId
                    /\ r.data = [home_team_id |-> m.home_team.id,
                                 away_team_id |-> m.away_team.id]
              /\ r.matchId \in DOMAIN predictions'
              /\ predictions'[r.matchId] = p
              /\ DOMAIN predictions' = DOMAIN predictions \cup {r.matchId}
              /\ \A id \in MatchIds \ {r.matchId} : SameEntry(id)
              /\ matches' = matches
              /\ loading' = loading
              /\ error' = error]_vars

C12_Witness ==
    /\ lastPredictionEvent.kind = "fulfilled"
    /\ \E m1, m2 \in Range(Cards) :
          /\ m1.id = lastPredictionEvent.matchId
          /\ m2.id # m1.id
          /\ PanelShown(m1)
          /\ PanelShown(m2)
          /\ predictions[m1.id] # predictions[m2.id]

DisabledCards == {m \in Range(Cards) : Disabled(m)}

\* C13: at most one button is disabled in every state; the issue of a
\* request for Y sets the marker to Y, which enables the button of every other
\* match, also of one whose request is in flight; the settling of any request
\* sets the marker to null whichever match it names.
C13_SingleMarker ==
    /\ [](Cardinality(DisabledCards) <= 1)
    /\ [][/\ \A m \in MatchPool : HandleGetPrediction(m) =>
                /\ loadingPrediction' = m.id
                /\ \A x \in Range(Cards) : x.id # m.id => ~Disabled(x)'
          /\ \A r \in inflight :
                (PredictionRejected(r)
                 \/ \E p \in ViewPredictionData : PredictionFulfilled(r, p)) =>
                    /\ loadingPrediction' = NULL
                    /\ \A x \in Range(Cards) : ~Disabled(x)']_vars

\* two requests for one match are in flight, the second issued after the
\* issue of a request for another match had enabled the button again
C13_Witness ==
    \E r1, r2, r3 \in inflight :
        /\ r1.matchId = r2.matchId
        /\ r1.rid < r3.rid
        /\ r3.rid < r2.rid
        /\ r3.matchId # r1.matchId
        /\ loadingPrediction = r2.matchId
        /\ Cardinality(DisabledCards) = 1

\* C14: the rejection of a prediction request leaves the whole predictions
\* mapping as it was: no entry is added, changed or removed, and every panel
\* that was shown, also the failed match's own, is still shown.
C14_FailureKeepsPredictions ==
    [][\A r \in inflight : PredictionRejected(r) =>
          /\ predictions' = predictions
          /\ \A m \in Range(Cards) : PanelShown(m)' <=> PanelShown(m)]_vars

C14_Witness ==
    /\ lastPredictionEvent.kind = "rejected"
    /\ Cardinality(DOMAIN predictions) = 2
    /\ \E m \in CardsWithId(lastPredictionEvent.matchId) :
          /\ PanelShown(m)
          /\ predictions[m.id] = lastResolved[m.id].prediction

AllButtonsIdle ==
    \A m \in Range(Cards) : ~Disabled(m) /\ ButtonLabel(m) = "Get Prediction"

\* C15: whenever no prediction request is in flight the marker is null and
\* every button is enabled with the idle label; and when every request issued
\* settles in the end, a state with a disabled button is followed by a state
\* in which no button shows 'Loading...'.
C15_NoRequestNoPendingButton ==
    /\ [](inflight = {} => (loadingPrediction = NULL /\ AllButtonsIdle))
    /\ (loadingPrediction # NULL) ~> (loadingPrediction = NULL /\ AllButtonsIdle)

C15_Witness ==
    /\ inflight = {}
    /\ issuedCount >= 2
    /\ CardCount >= 1
    /\ lastPredictionEvent.kind = "fulfilled"
    /\ loadingPrediction = NULL
    /\ AllButtonsIdle

ListedIds == {m.id : m \in Range(matches)}

\* C16: in every state the keys of the predictions mapping, the marker when
\* it is not null and the match of every request in flight are identifiers
\* of matches of the match list; in the loading and in the error state the
\* match list and the predictions mapping are empty, the marker is null and
\* no prediction request is in flight.
C16_KeysAreListedMatches ==
    /\ DOMAIN predictions \subseteq ListedIds
    /\ loadingPrediction # NULL => loadingPrediction \in ListedIds
    /\ \A r \in inflight : r.matchId \in ListedIds
    /\ ViewState \in {"loading", "error"} =>
          /\ matches = << >>
          /\ DOMAIN predictions = {}
          /\ loadingPrediction = NULL
          /\ inflight = {}
          /\ issuedCount = 0

C16_Witness ==
    /\ ViewState = "ready"
    /\ Len(matches) = 2
    /\ DOMAIN predictions # {}
    /\ DOMAIN predictions # ListedIds
    /\ loadingPrediction \in ListedIds
    /\ loadingPrediction \notin DOMAIN predictions

====
